---- MODULE Spec2Model ----
(***************************************************************************)
(* A model of arcade's Window (src/arcade/application.py): the fixed-step  *)
(* update scheduler (_dispatch_updates) and the View handler binding       *)
(* (show_view / hide_view) on pyglet's event-handler stack.                *)
(*                                                                         *)
(* Time is counted in integer units (one unit = 1/120 s), so the default   *)
(* fixed_rate of 1/60 s is 2 units.                                        *)
(***************************************************************************)
EXTENDS Integers, Sequences, FiniteSets, TLC

\* ---------------------------------------------------------------- bounds
MaxTime == 10

MaxDelta == 6

MaxCap == 2

MaxStack == 5

MaxLoop == 3

\* ------------------------------------------------------------- constants
None == "None"

ThisWindow == "window"

OtherWindow == "other_window"

\* a View object that does not exist yet
Unconstructed == "unconstructed"

Views == {"A", "B"}

NonViews == {"not_a_view"}

\* Window.__init__ defaults: width, height
Width == 1280

Height == 720

FullViewport == <<0, 0, Width, Height>>

Viewports == {FullViewport, <<0, 0, Width \div 2, Height \div 2>>}

\* fixed_rate values a Window is constructed with (2 units = the default 1/60 s)
FixedRates == {2, 3}

\* fixed_frame_cap values: <<>> is None, <<c>> is the integer c
FixedFrameCaps == {<<>>} \cup {<<c>> : c \in 0..MaxCap}

Deltas == 0..MaxDelta

\* fixed_rate values Window.__init__ accepts: it stores whatever it is given
CtorFixedRates == FixedRates \cup {0, -1}

\* update_rate / draw_rate values (2 units = the default 1/60 s)
DefaultRate == 2

Rates == {DefaultRate, 2 * DefaultRate}

\* self.event_types: pyglet's window events plus the three registered in __init__
EventTypes ==
    {"on_update", "on_fixed_update", "on_draw", "on_key_press", "on_resize",
     "on_show", "on_close"}

VARIABLES
    global_clock,      \* Window._global_clock: [time, delta_time]
    fixed_clock,       \* Window._fixed_clock: [time]
    fixed_rate,        \* Window._fixed_rate
    fixed_frame_cap,   \* Window._fixed_frame_cap
    pc,                \* position in _dispatch_updates: "idle" or "loop"
    fixed_count,       \* the local fixed_count of _dispatch_updates
    delta,             \* the delta_time argument of the running/last trigger
    acc0,              \* accumulated time when the running/last trigger began
    dispatched,        \* update events dispatched by the running/last trigger
    observed,          \* the clock values each of those handlers could read
    total_fixed,       \* on_fixed_update dispatches since construction
    exc,               \* the handler whose exception ended the last trigger
    current_view,      \* Window._current_view
    event_stack,       \* pyglet's _event_stack, top frame first
    viewport,          \* Window.viewport
    view_window,       \* View.window of every View
    has_sections,      \* View.has_sections of every View
    call,              \* the last call made on the Window / a View
    hooks,             \* lifecycle hooks invoked by the last call, in order
    update_rate,       \* Window._update_rate
    draw_rate,         \* Window._draw_rate
    scheduled,         \* pyglet.clock's intervals: [update, draw], <<>> is none
    closed             \* the Window has been closed

schedVars == <<global_clock, fixed_clock, fixed_rate, fixed_frame_cap, pc,
               fixed_count, delta, acc0, dispatched, observed, total_fixed, exc>>

viewVars == <<current_view, event_stack, viewport, view_window, has_sections,
              call, hooks>>

hostVars == <<update_rate, draw_rate, scheduled, closed>>

vars == <<global_clock, fixed_clock, fixed_rate, fixed_frame_cap, pc,
          fixed_count, delta, acc0, dispatched, observed, total_fixed, exc,
          current_view, event_stack, viewport, view_window, has_sections,
          call, hooks, update_rate, draw_rate, scheduled, closed>>

\* ------------------------------------------------------ Clock / FixedClock
\* Clock.tick(dt): time += dt; delta_time = dt
ClockTick(clock, dt) == [time |-> clock.time + dt, delta_time |-> dt]

\* FixedClock.tick(fixed_rate): the fixed-step time advances by one quantum
FixedClockTick(clock, rate) == [time |-> clock.time + rate]

\* FixedClock.accumulated: the gap between global time and fixed time
Accumulated == global_clock.time - fixed_clock.time

\* Window.time, Window.delta_time, Window.fixed_time: what a handler reads
ClockAliases(g, f) ==
    [time |-> g.time, delta_time |-> g.delta_time, fixed_time |-> f.time]

\* ---------------------------------------------------------------- scheduler
FixedUpdateEvent == [event |-> "on_fixed_update", delta_time |-> fixed_rate]

UpdateEvent == [event |-> "on_update", delta_time |-> delta]

NumFixed(seq) == Cardinality({i \in DOMAIN seq : seq[i].event = "on_fixed_update"})

NumUpdate(seq) == Cardinality({i \in DOMAIN seq : seq[i].event = "on_update"})

\* "fixed_frame_cap is None or fixed_count <= fixed_frame_cap"
CapAllows ==
    IF fixed_frame_cap = <<>> THEN TRUE ELSE fixed_count <= fixed_frame_cap[1]

WhileCondition_strict ==
    /\ Accumulated > fixed_rate
    /\ CapAllows

WhileCondition_capOnly ==
    IF fixed_frame_cap = <<>> THEN Accumulated >= fixed_rate ELSE CapAllows

WhileCondition_capStrict ==
    /\ Accumulated >= fixed_rate
    /\ (IF fixed_frame_cap = <<>> THEN TRUE ELSE fixed_count < fixed_frame_cap[1])

WhileCondition_oneStep ==
    /\ Accumulated >= fixed_rate
    /\ CapAllows
    /\ fixed_count < 1

\* the while condition of _dispatch_updates
WhileCondition ==
    /\ Accumulated >= fixed_rate
    /\ CapAllows

DispatchUpdatesBegin_keepDelta(dt) ==
    /\ pc = "idle"
    /\ global_clock.time + dt <= MaxTime
    /\ acc0' = Accumulated
    /\ global_clock' = [global_clock EXCEPT !.time = @ + dt]
    /\ fixed_count' = 0
    /\ delta' = dt
    /\ dispatched' = <<>>
    /\ observed' = <<>>
    /\ exc' = None
    /\ pc' = "loop"
    /\ UNCHANGED <<fixed_clock, fixed_rate, fixed_frame_cap, total_fixed>>
    /\ UNCHANGED viewVars
    /\ UNCHANGED hostVars

\* _dispatch_updates(delta_time): entry, global tick, fixed_count = 0
DispatchUpdatesBegin(dt) ==
    /\ pc = "idle"
    /\ global_clock.time + dt <= MaxTime
    /\ acc0' = Accumulated
    /\ global_clock' = ClockTick(global_clock, dt)
    /\ fixed_count' = 0
    /\ delta' = dt
    /\ dispatched' = <<>>
    /\ observed' = <<>>
    /\ exc' = None
    /\ pc' = "loop"
    /\ UNCHANGED <<fixed_clock, fixed_rate, fixed_frame_cap, total_fixed>>
    /\ UNCHANGED viewVars
    /\ UNCHANGED hostVars

FixedStep_updateInLoop ==
    /\ pc = "loop"
    /\ WhileCondition
    /\ fixed_clock' = FixedClockTick(fixed_clock, fixed_rate)
    /\ dispatched' = dispatched \o <<FixedUpdateEvent, UpdateEvent>>
    /\ observed' = observed \o <<ClockAliases(global_clock, fixed_clock'),
                                  ClockAliases(global_clock, fixed_clock')>>
    /\ total_fixed' = total_fixed + 1
    /\ fixed_count' = fixed_count + 1
    /\ UNCHANGED <<global_clock, fixed_rate, fixed_frame_cap, pc, delta, acc0, exc>>
    /\ UNCHANGED viewVars
    /\ UNCHANGED hostVars

FixedStep_dispatchBeforeTick ==
    /\ pc = "loop"
    /\ WhileCondition
    /\ fixed_clock' = FixedClockTick(fixed_clock, fixed_rate)
    /\ dispatched' = Append(dispatched, FixedUpdateEvent)
    /\ observed' = Append(observed, ClockAliases(global_clock, fixed_clock))
    /\ total_fixed' = total_fixed + 1
    /\ fixed_count' = fixed_count + 1
    /\ UNCHANGED <<global_clock, fixed_rate, fixed_frame_cap, pc, delta, acc0, exc>>
    /\ UNCHANGED viewVars
    /\ UNCHANGED hostVars

\* one iteration of the while loop: fixed tick, on_fixed_update, fixed_count += 1
FixedStep ==
    /\ pc = "loop"
    /\ WhileCondition
    /\ fixed_clock' = FixedClockTick(fixed_clock, fixed_rate)
    /\ dispatched' = Append(dispatched, FixedUpdateEvent)
    /\ observed' = Append(observed, ClockAliases(global_clock, fixed_clock'))
    /\ total_fixed' = total_fixed + 1
    /\ fixed_count' = fixed_count + 1
    /\ UNCHANGED <<global_clock, fixed_rate, fixed_frame_cap, pc, delta, acc0, exc>>
    /\ UNCHANGED viewVars
    /\ UNCHANGED hostVars

DispatchUpdate_dropLeftover ==
    /\ pc = "loop"
    /\ ~WhileCondition
    /\ dispatched' = Append(dispatched, UpdateEvent)
    /\ fixed_clock' =
         [time |-> global_clock.time - (Accumulated % fixed_rate)]
    /\ observed' = Append(observed, ClockAliases(global_clock, fixed_clock))
    /\ pc' = "idle"
    /\ UNCHANGED <<global_clock, fixed_rate, fixed_frame_cap, fixed_count,
                   delta, acc0, total_fixed, exc>>
    /\ UNCHANGED viewVars
    /\ UNCHANGED hostVars

DispatchUpdate_fixedDelta ==
    /\ pc = "loop"
    /\ ~WhileCondition
    /\ dispatched' = Append(dispatched, [UpdateEvent EXCEPT !.delta_time = fixed_rate])
    /\ observed' = Append(observed, ClockAliases(global_clock, fixed_clock))
    /\ pc' = "idle"
    /\ UNCHANGED <<global_clock, fixed_clock, fixed_rate, fixed_frame_cap,
                   fixed_count, delta, acc0, total_fixed, exc>>
    /\ UNCHANGED viewVars
    /\ UNCHANGED hostVars

\* the loop has ended: dispatch on_update with the frame's delta and return
DispatchUpdate ==
    /\ pc = "loop"
    /\ ~WhileCondition
    /\ dispatched' = Append(dispatched, UpdateEvent)
    /\ observed' = Append(observed, ClockAliases(global_clock, fixed_clock))
    /\ pc' = "idle"
    /\ UNCHANGED <<global_clock, fixed_clock, fixed_rate, fixed_frame_cap,
                   fixed_count, delta, acc0, total_fixed, exc>>
    /\ UNCHANGED viewVars
    /\ UNCHANGED hostVars

FixedUpdateHandlerRaises_swallowed ==
    /\ pc = "loop"
    /\ WhileCondition
    /\ fixed_clock' = FixedClockTick(fixed_clock, fixed_rate)
    /\ dispatched' = Append(dispatched, FixedUpdateEvent)
    /\ observed' = Append(observed, ClockAliases(global_clock, fixed_clock'))
    /\ total_fixed' = total_fixed + 1
    /\ fixed_count' = fixed_count + 1
    /\ exc' = "on_fixed_update"
    /\ UNCHANGED <<global_clock, fixed_rate, fixed_frame_cap, pc, delta, acc0>>
    /\ UNCHANGED viewVars
    /\ UNCHANGED hostVars

\* an iteration whose on_fixed_update handler raises: the fixed clock has
\* ticked, the exception leaves the loop and _dispatch_updates
FixedUpdateHandlerRaises ==
    /\ pc = "loop"
    /\ WhileCondition
    /\ fixed_clock' = FixedClockTick(fixed_clock, fixed_rate)
    /\ dispatched' = Append(dispatched, FixedUpdateEvent)
    /\ observed' = Append(observed, ClockAliases(global_clock, fixed_clock'))
    /\ total_fixed' = total_fixed + 1
    /\ exc' = "on_fixed_update"
    /\ pc' = "idle"
    /\ UNCHANGED <<global_clock, fixed_rate, fixed_frame_cap, fixed_count, delta,
                   acc0>>
    /\ UNCHANGED viewVars
    /\ UNCHANGED hostVars

\* the loop has ended and the on_update handler raises
UpdateHandlerRaises ==
    /\ pc = "loop"
    /\ ~WhileCondition
    /\ dispatched' = Append(dispatched, UpdateEvent)
    /\ observed' = Append(observed, ClockAliases(global_clock, fixed_clock))
    /\ exc' = "on_update"
    /\ pc' = "idle"
    /\ UNCHANGED <<global_clock, fixed_clock, fixed_rate, fixed_frame_cap,
                   fixed_count, delta, acc0, total_fixed>>
    /\ UNCHANGED viewVars
    /\ UNCHANGED hostVars

\* ------------------------------------------------- pyglet's handler stack
ViewObj(v) == [kind |-> "view", id |-> v]

SMObj(v) == [kind |-> "section_manager", id |-> v]

WindowObj == [kind |-> "window", id |-> ThisWindow]

PollingObj == [kind |-> "polling", id |-> ThisWindow]

\* the event names class View defines; View "B" is a subclass that adds on_close
ViewAttrs(v) ==
    {"on_update", "on_fixed_update", "on_draw", "on_key_press", "on_resize",
     "on_show"} \cup (IF v = "B" THEN {"on_close"} ELSE {})

\* the event methods a View subclass overrides: "A" overrides on_draw, "B"
\* overrides on_update and adds on_close
ViewOverrides(v) == IF v = "B" THEN {"on_update", "on_close"} ELSE {"on_draw"}

\* SectionManager.managed_events
ManagedEvents == {"on_update", "on_draw", "on_key_press", "on_resize"}

\* dir(obj) restricted to event_types: the names remove_handlers(obj) looks for
Dir(obj) ==
    CASE obj.kind = "view" -> ViewAttrs(obj.id)
      [] obj.kind = "section_manager" -> ManagedEvents
      [] obj.kind = "polling" -> {"on_key_press"}
      [] OTHER -> EventTypes \ {"on_show"}

\* push_handlers(**handlers): a new frame on top of the stack
push_handlers(stack, obj, events) == <<[obj |-> obj, events |-> events]>> \o stack

RemoveAt(stack, i) ==
    [j \in 1..(Len(stack) - 1) |-> IF j < i THEN stack[j] ELSE stack[j + 1]]

\* remove_handlers(obj): the topmost frame holding a handler of obj loses obj's
\* handlers, and is dropped when that leaves it empty
remove_handlers(stack, obj) ==
    LET matches == {i \in DOMAIN stack :
                        stack[i].obj = obj /\ stack[i].events \cap Dir(obj) # {}}
    IN IF matches = {} THEN stack
       ELSE LET i == CHOOSE m \in matches : \A n \in matches : m <= n
                rest == stack[i].events \ Dir(obj)
            IN IF rest = {} THEN RemoveAt(stack, i)
               ELSE [stack EXCEPT ![i].events = rest]

\* dispatch_event(ev): the objects whose handler for ev is on the stack, top first
HandlersFor(ev) ==
    LET frames == SelectSeq(event_stack, LAMBDA f : ev \in f.events)
    IN [i \in DOMAIN frames |-> frames[i].obj]

\* every object that has some handler on the stack
ObjectsOnStack == {event_stack[i].obj : i \in DOMAIN event_stack}

\* ------------------------------------------------------ show_view / hide_view
\* a hook invocation: the hook, its object, and current_view and the objects
\* with handlers on the stack at the moment it is invoked
Hook(name, obj, cur, stack) ==
    [hook |-> name, obj |-> obj, current_view |-> cur,
     bound |-> {stack[i].obj : i \in DOMAIN stack}]

Call(op, arg, raised) ==
    [op |-> op, arg |-> arg, prev |-> current_view, raised |-> raised]

show_view_raise_late(new_view) ==
    /\ call' = Call("show_view", new_view, "TypeError")
    /\ hooks' = <<>>
    /\ viewport' = FullViewport
    /\ UNCHANGED <<current_view, event_stack, view_window, has_sections>>

\* show_view: the isinstance check fails, TypeError
show_view_raise(new_view) ==
    /\ call' = Call("show_view", new_view, "TypeError")
    /\ hooks' = <<>>
    /\ UNCHANGED <<current_view, event_stack, viewport, view_window, has_sections>>

show_view_removed_keepView(stack) ==
    IF current_view = None THEN stack
    ELSE IF has_sections[current_view]
         THEN remove_handlers(stack, SMObj(current_view))
         ELSE stack

show_view_removed_keepSections(stack) ==
    IF current_view = None THEN stack
    ELSE remove_handlers(stack, ViewObj(current_view))

\* show_view: "remove previously shown view's handlers"
show_view_removed(stack) ==
    IF current_view = None THEN stack
    ELSE LET s1 == IF has_sections[current_view]
                   THEN remove_handlers(stack, SMObj(current_view))
                   ELSE stack
         IN remove_handlers(s1, ViewObj(current_view))

show_view_pushed_managedToo(stack, new_view) ==
    LET s1 == IF has_sections[new_view]
              THEN push_handlers(stack, SMObj(new_view), ManagedEvents)
              ELSE stack
        view_handlers ==
            {et \in EventTypes : et # "on_show" /\ et \in ViewAttrs(new_view)}
    IN push_handlers(s1, ViewObj(new_view), view_handlers)

show_view_pushed_noHasattr(stack, new_view) ==
    LET section_manager_managed_events ==
            IF has_sections[new_view] THEN ManagedEvents ELSE {}
        s1 == IF has_sections[new_view]
              THEN push_handlers(stack, SMObj(new_view), ManagedEvents)
              ELSE stack
        view_handlers ==
            {et \in EventTypes : /\ et # "on_show"
                                 /\ et \notin section_manager_managed_events}
    IN push_handlers(s1, ViewObj(new_view), view_handlers)

\* show_view: "push new view's handlers"
show_view_pushed(stack, new_view) ==
    LET section_manager_managed_events ==
            IF has_sections[new_view] THEN ManagedEvents ELSE {}
        s1 == IF has_sections[new_view] /\ section_manager_managed_events # {}
              THEN push_handlers(stack, SMObj(new_view),
                                 section_manager_managed_events)
              ELSE stack
        view_handlers ==
            {et \in EventTypes : /\ et # "on_show"
                                 /\ et \notin section_manager_managed_events
                                 /\ et \in ViewAttrs(new_view)}
    IN IF view_handlers # {}
       THEN push_handlers(s1, ViewObj(new_view), view_handlers)
       ELSE s1

show_view_hooks_beforePush(new_view) ==
    LET removed == show_view_removed(event_stack)
    IN (IF current_view = None THEN <<>>
        ELSE <<Hook("on_hide_view", ViewObj(current_view), current_view, event_stack)>>)
       \o <<Hook("on_show", ViewObj(new_view), new_view, removed),
            Hook("on_show_view", ViewObj(new_view), new_view, removed)>>
       \o (IF has_sections[new_view]
           THEN <<Hook("on_show_view", SMObj(new_view), new_view, removed)>>
           ELSE <<>>)

show_view_hooks_noHideOnReshow(new_view) ==
    LET pushed == show_view_pushed(show_view_removed(event_stack), new_view)
    IN (IF current_view = None \/ current_view = new_view THEN <<>>
        ELSE <<Hook("on_hide_view", ViewObj(current_view), current_view, event_stack)>>)
       \o <<Hook("on_show", ViewObj(new_view), new_view, pushed),
            Hook("on_show_view", ViewObj(new_view), new_view, pushed)>>
       \o (IF has_sections[new_view]
           THEN <<Hook("on_show_view", SMObj(new_view), new_view, pushed)>>
           ELSE <<>>)

\* the hooks show_view invokes, in order: on_hide_view of the outgoing View
\* before anything is removed; on_show, on_show_view (and the section
\* manager's on_show_view) after the push and the current_view assignment
show_view_hooks(new_view) ==
    LET pushed == show_view_pushed(show_view_removed(event_stack), new_view)
    IN (IF current_view = None THEN <<>>
        ELSE <<Hook("on_hide_view", ViewObj(current_view), current_view, event_stack)>>)
       \o <<Hook("on_show", ViewObj(new_view), new_view, pushed),
            Hook("on_show_view", ViewObj(new_view), new_view, pushed)>>
       \o (IF has_sections[new_view]
           THEN <<Hook("on_show_view", SMObj(new_view), new_view, pushed)>>
           ELSE <<>>)

show_view_window_always(new_view) ==
    [view_window EXCEPT ![new_view] = ThisWindow]

show_view_window_never(new_view) == view_window

\* show_view: "Store the Window that is showing the new_view View", only if unset
show_view_window(new_view) ==
    IF view_window[new_view] = None
    THEN [view_window EXCEPT ![new_view] = ThisWindow]
    ELSE view_window

\* Window.show_view(new_view)
show_view(new_view) ==
    /\ pc = "idle"
    /\ IF new_view \notin Views
       THEN show_view_raise(new_view)
       ELSE /\ viewport' = FullViewport
            /\ view_window' = show_view_window(new_view)
            /\ event_stack' = show_view_pushed(show_view_removed(event_stack), new_view)
            /\ Len(event_stack') <= MaxStack
            /\ current_view' = new_view
            /\ hooks' = show_view_hooks(new_view)
            /\ call' = Call("show_view", new_view, None)
            /\ UNCHANGED has_sections
    /\ UNCHANGED schedVars
    /\ UNCHANGED hostVars

show_view_hide_raises_afterRemove(new_view) ==
    /\ pc = "idle"
    /\ new_view \in Views
    /\ current_view # None
    /\ viewport' = FullViewport
    /\ view_window' = show_view_window(new_view)
    /\ hooks' = <<Hook("on_hide_view", ViewObj(current_view), current_view,
                        event_stack)>>
    /\ call' = Call("show_view", new_view, "HookError")
    /\ event_stack' = show_view_removed(event_stack)
    /\ UNCHANGED <<current_view, has_sections>>
    /\ UNCHANGED schedVars
    /\ UNCHANGED hostVars

\* show_view where the outgoing View's on_hide_view raises: the viewport and
\* new_view.window are already set, nothing is removed or pushed yet
show_view_hide_raises(new_view) ==
    /\ pc = "idle"
    /\ new_view \in Views
    /\ current_view # None
    /\ viewport' = FullViewport
    /\ view_window' = show_view_window(new_view)
    /\ hooks' = <<Hook("on_hide_view", ViewObj(current_view), current_view,
                        event_stack)>>
    /\ call' = Call("show_view", new_view, "HookError")
    /\ UNCHANGED <<current_view, event_stack, has_sections>>
    /\ UNCHANGED schedVars
    /\ UNCHANGED hostVars

\* hide_view where the View's on_hide_view raises: nothing is removed yet
hide_view_raises ==
    /\ pc = "idle"
    /\ current_view # None
    /\ hooks' = <<Hook("on_hide_view", ViewObj(current_view), current_view,
                        event_stack)>>
    /\ call' = Call("hide_view", None, "HookError")
    /\ UNCHANGED <<current_view, event_stack, viewport, view_window, has_sections>>
    /\ UNCHANGED schedVars
    /\ UNCHANGED hostVars

\* hide_view: the handlers left after the active View's are removed
hide_view_removed(stack) ==
    LET s1 == IF has_sections[current_view]
              THEN remove_handlers(stack, SMObj(current_view))
              ELSE stack
    IN remove_handlers(s1, ViewObj(current_view))

hide_view_noEarlyReturn ==
    /\ pc = "idle"
    /\ IF current_view = None
       THEN /\ call' = Call("hide_view", None, "AttributeError")
            /\ hooks' = <<>>
            /\ UNCHANGED <<current_view, event_stack>>
       ELSE /\ call' = Call("hide_view", None, None)
            /\ hooks' = <<Hook("on_hide_view", ViewObj(current_view),
                                current_view, event_stack)>>
            /\ event_stack' = hide_view_removed(event_stack)
            /\ current_view' = None
    /\ UNCHANGED <<viewport, view_window, has_sections>>
    /\ UNCHANGED schedVars
    /\ UNCHANGED hostVars

\* Window.hide_view()
hide_view ==
    /\ pc = "idle"
    /\ call' = Call("hide_view", None, None)
    /\ IF current_view = None
       THEN /\ hooks' = <<>>
            /\ UNCHANGED <<current_view, event_stack>>
       ELSE /\ hooks' = <<Hook("on_hide_view", ViewObj(current_view),
                                current_view, event_stack)>>
                        \o (IF has_sections[current_view]
                            THEN <<Hook("on_hide_view", SMObj(current_view),
                                        current_view, event_stack)>>
                            ELSE <<>>)
            /\ event_stack' = hide_view_removed(event_stack)
            /\ current_view' = None
    /\ UNCHANGED <<viewport, view_window, has_sections>>
    /\ UNCHANGED schedVars
    /\ UNCHANGED hostVars

\* arcade.get_window(): the Window registered by set_window(self) in __init__
get_window == ThisWindow

View_init_unattached(v, window) ==
    /\ pc = "idle"
    /\ view_window[v] = Unconstructed
    /\ view_window' = [view_window EXCEPT ![v] = window]
    /\ call' = Call(IF window = None THEN "View()" ELSE "View(window)", v, None)
    /\ hooks' = <<>>
    /\ UNCHANGED <<current_view, event_stack, viewport, has_sections>>
    /\ UNCHANGED schedVars
    /\ UNCHANGED hostVars

\* View.__init__(window): self.window = get_window() if window is None else window
View_init(v, window) ==
    /\ pc = "idle"
    /\ view_window[v] = Unconstructed
    /\ view_window' = [view_window EXCEPT
                          ![v] = IF window = None THEN get_window ELSE window]
    /\ call' = Call(IF window = None THEN "View()" ELSE "View(window)", v, None)
    /\ hooks' = <<>>
    /\ UNCHANGED <<current_view, event_stack, viewport, has_sections>>
    /\ UNCHANGED schedVars
    /\ UNCHANGED hostVars

\* show_view of a View object that exists
show_constructed_view(v) ==
    /\ view_window[v] # Unconstructed
    /\ show_view(v)

\* the Window's own event methods, which dispatch_event calls after the stack
WindowMethod == [kind |-> "window_method", id |-> ThisWindow]

WindowMethods == EventTypes \ {"on_show"}

\* dispatch_event(ev): the handlers in the order they are tried
DispatchOrder(ev) ==
    HandlersFor(ev) \o (IF ev \in WindowMethods THEN <<WindowMethod>> ELSE <<>>)

\* whether a handler returns a truthy value: user handlers (of Views, of the
\* sections of a section manager that has sections, of the Window) as the
\* input says; _on_resize returns False and the polling handlers return None
ReturnsTruthy(obj, truthy) ==
    /\ obj.kind \in {"view", "section_manager", "window_method"}
    /\ obj.kind \in truthy
    /\ (obj.kind = "section_manager" => has_sections[obj.id])

\* the handlers dispatch_event invokes: up to the first truthy return
Invoked(order, truthy) ==
    LET stops == {i \in DOMAIN order : ReturnsTruthy(order[i], truthy)}
        last == IF stops = {} THEN Len(order)
                ELSE CHOOSE i \in stops : \A j \in stops : i <= j
    IN [i \in 1..last |->
          [obj |-> order[i], result |-> ReturnsTruthy(order[i], truthy)]]

\* Window.dispatch_event(ev), the handlers of the kinds in truthy returning
\* a truthy value
dispatch_event(ev, truthy) ==
    /\ pc = "idle"
    /\ call' = Call("dispatch_event", ev, None)
    /\ hooks' = Invoked(DispatchOrder(ev), truthy)
    /\ UNCHANGED <<current_view, event_stack, viewport, view_window, has_sections>>
    /\ UNCHANGED schedVars
    /\ UNCHANGED hostVars

\* View.add_section(section): the View now has sections
add_section(v) ==
    /\ pc = "idle"
    /\ has_sections' = [has_sections EXCEPT ![v] = TRUE]
    /\ call' = Call("add_section", v, None)
    /\ hooks' = <<>>
    /\ UNCHANGED <<current_view, event_stack, viewport, view_window>>
    /\ UNCHANGED schedVars
    /\ UNCHANGED hostVars

\* view.section_manager.remove_section(section) of the View's last section
remove_section(v) ==
    /\ pc = "idle"
    /\ has_sections[v]
    /\ has_sections' = [has_sections EXCEPT ![v] = FALSE]
    /\ call' = Call("remove_section", v, None)
    /\ hooks' = <<>>
    /\ UNCHANGED <<current_view, event_stack, viewport, view_window>>
    /\ UNCHANGED schedVars
    /\ UNCHANGED hostVars

\* Window.viewport = new_viewport
set_viewport(new_viewport) ==
    /\ pc = "idle"
    /\ viewport' = new_viewport
    /\ call' = Call("set_viewport", None, None)
    /\ hooks' = <<>>
    /\ UNCHANGED <<current_view, event_stack, view_window, has_sections>>
    /\ UNCHANGED schedVars
    /\ UNCHANGED hostVars

\* ------------------------------------------------ scheduling on pyglet.clock
\* pyglet.clock calls the scheduled _dispatch_updates with the elapsed time
update_trigger(dt) ==
    /\ scheduled.update # <<>>
    /\ DispatchUpdatesBegin(dt)

\* pyglet.clock calls the scheduled pyglet.app.event_loop._redraw_windows
draw_trigger ==
    /\ pc = "idle"
    /\ scheduled.draw # <<>>
    /\ call' = Call("_redraw_windows", None, None)
    /\ hooks' = <<>>
    /\ UNCHANGED <<current_view, event_stack, viewport, view_window, has_sections>>
    /\ UNCHANGED schedVars
    /\ UNCHANGED hostVars

set_update_rate_setsFixedRate(rate) ==
    /\ pc = "idle"
    /\ update_rate' = rate
    /\ fixed_rate' = rate
    /\ scheduled' = [scheduled EXCEPT !.update = <<rate>>]
    /\ call' = Call("set_update_rate", None, None)
    /\ hooks' = <<>>
    /\ UNCHANGED <<draw_rate, closed>>
    /\ UNCHANGED <<current_view, event_stack, viewport, view_window, has_sections>>
    /\ UNCHANGED <<global_clock, fixed_clock, fixed_frame_cap, pc, fixed_count,
                   delta, acc0, dispatched, observed, total_fixed, exc>>

set_update_rate_noUnschedule(rate) ==
    /\ pc = "idle"
    /\ update_rate' = rate
    /\ scheduled' = [scheduled EXCEPT !.update = Append(@, rate)]
    /\ call' = Call("set_update_rate", None, None)
    /\ hooks' = <<>>
    /\ UNCHANGED <<draw_rate, closed>>
    /\ UNCHANGED <<current_view, event_stack, viewport, view_window, has_sections>>
    /\ UNCHANGED schedVars

\* Window.set_update_rate(rate): unschedule, then schedule_interval
set_update_rate(rate) ==
    /\ pc = "idle"
    /\ update_rate' = rate
    /\ scheduled' = [scheduled EXCEPT !.update = <<rate>>]
    /\ call' = Call("set_update_rate", None, None)
    /\ hooks' = <<>>
    /\ UNCHANGED <<draw_rate, closed>>
    /\ UNCHANGED <<current_view, event_stack, viewport, view_window, has_sections>>
    /\ UNCHANGED schedVars

set_draw_rate_reschedulesUpdate(rate) ==
    /\ pc = "idle"
    /\ draw_rate' = rate
    /\ scheduled' = [scheduled EXCEPT !.update = <<rate>>]
    /\ call' = Call("set_draw_rate", None, None)
    /\ hooks' = <<>>
    /\ UNCHANGED <<update_rate, closed>>
    /\ UNCHANGED <<current_view, event_stack, viewport, view_window, has_sections>>
    /\ UNCHANGED schedVars

\* Window.set_draw_rate(rate): unschedule, then schedule_interval
set_draw_rate(rate) ==
    /\ pc = "idle"
    /\ draw_rate' = rate
    /\ scheduled' = [scheduled EXCEPT !.draw = <<rate>>]
    /\ call' = Call("set_draw_rate", None, None)
    /\ hooks' = <<>>
    /\ UNCHANGED <<update_rate, closed>>
    /\ UNCHANGED <<current_view, event_stack, viewport, view_window, has_sections>>
    /\ UNCHANGED schedVars

close_hidesView ==
    /\ pc = "idle"
    /\ closed' = TRUE
    /\ scheduled' = [scheduled EXCEPT !.update = <<>>]
    /\ call' = Call("close", None, None)
    /\ hooks' = <<>>
    /\ current_view' = None
    /\ event_stack' = IF current_view = None THEN event_stack
                       ELSE hide_view_removed(event_stack)
    /\ UNCHANGED <<update_rate, draw_rate>>
    /\ UNCHANGED <<viewport, view_window, has_sections>>
    /\ UNCHANGED schedVars

\* Window.close(): pyglet's close, set_window(None), unschedule(_dispatch_updates)
close ==
    /\ pc = "idle"
    /\ closed' = TRUE
    /\ scheduled' = [scheduled EXCEPT !.update = <<>>]
    /\ call' = Call("close", None, None)
    /\ hooks' = <<>>
    /\ UNCHANGED <<update_rate, draw_rate>>
    /\ UNCHANGED <<current_view, event_stack, viewport, view_window, has_sections>>
    /\ UNCHANGED schedVars

\* the stall frame: the first trigger after construction, with any delta
stall_trigger(dt) ==
    /\ global_clock.time = 0
    /\ update_trigger(dt)

\* a later trigger with delta 0
catch_up_trigger ==
    /\ global_clock.time > 0
    /\ update_trigger(0)

\* Window.fixed_delta_time
fixed_delta_time == fixed_rate

\* ------------------------------------------------------------ specifications
\* the windows a View can hold when it is shown: the window argument or the
\* registered window of View.__init__, or None once the attribute was cleared
ViewInitWindows == {None, ThisWindow, OtherWindow}

\* Window.__init__: clocks, rates, cap
SchedInitFrom(rates) ==
    /\ global_clock = [time |-> 0, delta_time |-> 0]
    /\ fixed_clock = [time |-> 0]
    /\ fixed_rate \in rates
    /\ fixed_frame_cap \in FixedFrameCaps
    /\ pc = "idle"
    /\ fixed_count = 0
    /\ delta = 0
    /\ acc0 = 0
    /\ dispatched = <<>>
    /\ observed = <<>>
    /\ total_fixed = 0
    /\ exc = None

\* Window.__init__: handlers pushed, no current view; Views as constructed
ViewInitFrom(windows) ==
    /\ current_view = None
    /\ event_stack = <<[obj |-> PollingObj, events |-> {"on_key_press"}],
                       [obj |-> WindowObj, events |-> {"on_resize"}]>>
    /\ viewport = FullViewport
    /\ view_window \in [Views -> windows]
    /\ has_sections = [v \in Views |-> FALSE]
    /\ call = [op |-> "init", arg |-> None, prev |-> None, raised |-> None]
    /\ hooks = <<>>

ViewInit == ViewInitFrom(ViewInitWindows)

SchedInit == SchedInitFrom(FixedRates)

\* Window.__init__: set_update_rate(update_rate) schedules the update trigger;
\* the draw rate is stored, the draw trigger is not scheduled here
HostInit ==
    /\ update_rate = DefaultRate
    /\ draw_rate = DefaultRate
    /\ scheduled = [update |-> <<DefaultRate>>, draw |-> <<>>]
    /\ closed = FALSE

Init == SchedInit /\ ViewInit /\ HostInit

\* construction with any fixed_rate argument, positive or not
CtorInit == SchedInitFrom(CtorFixedRates) /\ ViewInit /\ HostInit

SchedNext ==
    \/ \E dt \in Deltas : DispatchUpdatesBegin(dt)
    \/ FixedStep
    \/ DispatchUpdate

ViewNext ==
    \/ \E x \in Views \cup NonViews : show_view(x)
    \/ hide_view
    \/ \E v \in Views : add_section(v)
    \/ \E v \in Views : remove_section(v)
    \/ \E vp \in Viewports : set_viewport(vp)

\* the scheduler with the while loop cut off after MaxLoop iterations, and
\* the fixed clock (which a negative fixed_rate winds back) kept above -MaxTime
CtorNext ==
    \/ \E dt \in Deltas : update_trigger(dt)
    \/ (/\ fixed_count < MaxLoop
        /\ fixed_clock.time > -MaxTime
        /\ total_fixed < MaxTime
        /\ FixedStep)
    \/ DispatchUpdate

\* the Window with its triggers scheduled on pyglet.clock
HostNext ==
    \/ \E dt \in Deltas : update_trigger(dt)
    \/ FixedStep
    \/ DispatchUpdate
    \/ draw_trigger
    \/ \E r \in Rates : set_update_rate(r)
    \/ \E r \in Rates : set_draw_rate(r)
    \/ close
    \/ \E x \in Views \cup NonViews : show_view(x)
    \/ hide_view

\* the Window constructed, no View object yet
ViewCtorInit == SchedInit /\ ViewInitFrom({Unconstructed}) /\ HostInit

\* Views are constructed, with or without a window argument, then shown
ViewCtorNext ==
    \/ \E v \in Views, w \in ViewInitWindows : View_init(v, w)
    \/ \E v \in Views : show_constructed_view(v)
    \/ hide_view
    \/ \E v \in Views : add_section(v)

\* Views bound to the Window, one fixed rate and cap
DispatchInit ==
    /\ Init
    /\ view_window = [v \in Views |-> ThisWindow]
    /\ fixed_rate = DefaultRate
    /\ fixed_frame_cap = <<>>

\* Views shown and hidden, sections added and removed, events dispatched
DispatchNext ==
    \/ \E v \in Views : show_view(v)
    \/ hide_view
    \/ \E v \in Views : add_section(v)
    \/ \E v \in Views : remove_section(v)
    \/ \E ev \in EventTypes, truthy \in SUBSET {"view", "section_manager"} :
          dispatch_event(ev, truthy)

\* one fixed rate and no cap
HookExcInit ==
    /\ Init
    /\ fixed_rate = DefaultRate
    /\ fixed_frame_cap = <<>>

\* the View binding with an on_hide_view hook that may raise
HookExcNext ==
    \/ ViewNext
    \/ \E v \in Views : show_view_hide_raises(v)
    \/ hide_view_raises

\* the scheduler with handlers that may raise
ExcNext ==
    \/ SchedNext
    \/ FixedUpdateHandlerRaises
    \/ UpdateHandlerRaises

\* a stall frame followed by triggers with delta 0
CatchUpNext ==
    \/ \E dt \in Deltas : stall_trigger(dt)
    \/ catch_up_trigger
    \/ FixedStep
    \/ DispatchUpdate

Next == SchedNext \/ ViewNext \/ HostNext \/ CatchUpNext \/ ExcNext \/ ViewCtorNext
          \/ DispatchNext \/ HookExcNext

\* the scheduler alone
SchedSpec == Init /\ [][SchedNext]_vars

\* the scheduler, where a trigger that has started keeps running
SchedFairSpec == SchedSpec /\ WF_vars(FixedStep) /\ WF_vars(DispatchUpdate)

\* a stall frame, then delta-0 triggers for as long as the clock keeps calling
CatchUpSpec == Init /\ [][CatchUpNext]_vars /\ WF_vars(CatchUpNext)

\* the scheduler with raising handlers
ExcSpec == Init /\ [][ExcNext]_vars

\* View construction and showing
ViewCtorSpec == ViewCtorInit /\ [][ViewCtorNext]_vars

\* event dispatch over the handler stack
DispatchSpec == DispatchInit /\ [][DispatchNext]_vars

\* the View binding with raising hooks
HookExcSpec == HookExcInit /\ [][HookExcNext]_vars

\* the View binding alone
ViewSpec == Init /\ [][ViewNext]_vars

\* construction with an unchecked fixed_rate, then the scheduler
CtorSpec == CtorInit /\ [][CtorNext]_vars

\* Views constructed after the Window, so bound to it
HostSpecInit == Init /\ view_window = [v \in Views |-> ThisWindow]

\* scheduling, closing and View switching together
HostSpec == HostSpecInit /\ [][HostNext]_vars

Spec == Init /\ [][Next]_vars

\* ------------------------------------------------------- scheduler claims
\* the last trigger has returned
TriggerDone == pc = "idle" /\ NumUpdate(dispatched) >= 1

\* C1: within one update trigger every on_fixed_update dispatch comes strictly
\* before the on_update dispatch: on_update is the last event the trigger
\* dispatches, and the trigger has returned once it is dispatched.
C1_FixedBeforeUpdate ==
    \A i \in DOMAIN dispatched :
        dispatched[i].event = "on_update" => (i = Len(dispatched) /\ pc = "idle")

C1_Witness ==
    /\ pc = "idle"
    /\ Len(dispatched) >= 3
    /\ dispatched[1].event = "on_fixed_update"
    /\ dispatched[Len(dispatched)].event = "on_update"

\* C2: with fixed_frame_cap = c, one update trigger dispatches at most c
\* on_fixed_update events.
C2_AtMostCapFixedSteps ==
    fixed_frame_cap # <<>> => NumFixed(dispatched) <= fixed_frame_cap[1]

\* C3: the cap never discards time: at every point of a trigger with delta dt
\* that has taken k fixed steps, accumulated = accumulated before the trigger
\* + dt - k * fixed_rate, so what the cap leaves is still there afterwards.
C3_NoTimeDiscarded ==
    Accumulated = acc0 + delta - NumFixed(dispatched) * fixed_rate

C3_Witness ==
    /\ TriggerDone
    /\ fixed_frame_cap # <<>>
    /\ NumFixed(dispatched) >= 1
    /\ Accumulated >= fixed_rate
    /\ acc0 > 0

\* C4: with no cap, accumulated = 0 before the trigger and delta = k * fixed_rate,
\* the trigger dispatches exactly k on_fixed_update then one on_update and
\* leaves accumulated = 0.
C4_ExactMultiple ==
    (/\ TriggerDone
     /\ fixed_frame_cap = <<>>
     /\ acc0 = 0
     /\ delta % fixed_rate = 0)
    => LET k == delta \div fixed_rate
       IN /\ dispatched = [i \in 1..(k + 1) |->
                              IF i <= k THEN FixedUpdateEvent ELSE UpdateEvent]
          /\ Accumulated = 0

C4_Witness ==
    /\ TriggerDone
    /\ fixed_frame_cap = <<>>
    /\ acc0 = 0
    /\ delta = 2 * fixed_rate
    /\ NumFixed(dispatched) = 2
    /\ global_clock.time > delta

\* C5: accumulated >= 0 in every reachable state; accumulated decreases only by
\* a fixed step, by exactly fixed_rate; no fixed step is taken when
\* accumulated < fixed_rate.
C5_AccumulatedNonNegative ==
    /\ [](Accumulated >= 0)
    /\ [][/\ (Accumulated' < Accumulated =>
                 /\ Accumulated' = Accumulated - fixed_rate
                 /\ dispatched' = Append(dispatched, FixedUpdateEvent))
          /\ (NumFixed(dispatched') > NumFixed(dispatched) =>
                 Accumulated >= fixed_rate)]_vars

C5_Witness ==
    /\ pc = "loop"
    /\ fixed_count >= 2
    /\ Accumulated > 0
    /\ Accumulated < fixed_rate

\* ---------------------------------------------------- view binding claims
WindowDefaults == {WindowObj, PollingObj}

\* the objects some dispatched event would reach through the stack
Reached == UNION {{HandlersFor(ev)[i] : i \in DOMAIN HandlersFor(ev)} : ev \in EventTypes}

ViewFrames(v) == {i \in DOMAIN event_stack : event_stack[i].obj = ViewObj(v)}

\* the active View was shown with its section manager's handlers pushed:
\* its own frame then leaves the managed events out
ShownWithSections(v) ==
    \A i \in ViewFrames(v) : event_stack[i].events \cap ManagedEvents = {}

\* C6: after show_view(A) followed by show_view(B), A # B, the stack holds no
\* handler of A nor of A's section manager, every dispatched event reaches only
\* B's handlers, B's section manager's and the Window defaults, and
\* current_view is B.
C6_OnlyNewViewOnStack ==
    (/\ call.op = "show_view"
     /\ call.raised = None
     /\ call.prev \in Views
     /\ call.prev # call.arg)
    => /\ current_view = call.arg
       /\ ViewObj(call.prev) \notin ObjectsOnStack
       /\ SMObj(call.prev) \notin ObjectsOnStack
       /\ Reached \subseteq {ViewObj(call.arg), SMObj(call.arg)} \cup WindowDefaults

\* C7: after hide_view() current_view is None, no handler of the previously
\* active View or of its section manager is on the stack, and every event
\* reaches only the Window defaults.
C7_HideLeavesOnlyDefaults ==
    call.op = "hide_view"
    => /\ current_view = None
       /\ (call.prev \in Views =>
              /\ ViewObj(call.prev) \notin ObjectsOnStack
              /\ SMObj(call.prev) \notin ObjectsOnStack
              /\ Reached \subseteq WindowDefaults)

\* C8: after any sequence of show_view and hide_view calls the stack holds
\* handlers of at most one View, in one frame, and that View is current_view;
\* it holds no View handler when current_view is None.
C8_OnlyCurrentViewBound ==
    /\ \A v \in Views : ViewFrames(v) # {} => v = current_view
    /\ \A v \in Views : Cardinality(ViewFrames(v)) <= 1
    /\ current_view \in Views => ViewFrames(current_view) # {}

C8_Witness ==
    /\ call.op = "show_view"
    /\ call.prev = "A"
    /\ current_view = "B"
    /\ ViewFrames("B") # {}
    /\ Len(event_stack) >= 4

\* C9: show_view with a value that is not a View raises TypeError and changes
\* nothing: current_view, the handler stack, the viewport and every View's
\* window are as before, and no lifecycle hook is invoked.
C9_NonViewRaisesNoMutation ==
    /\ [](call.op = "show_view" =>
             (call.raised = "TypeError" <=> call.arg \notin Views))
    /\ [][(call'.op = "show_view" /\ call'.arg \notin Views) =>
             /\ UNCHANGED <<current_view, event_stack, viewport, view_window,
                            has_sections>>
             /\ hooks' = <<>>]_vars

C9_Witness ==
    /\ call.op = "show_view"
    /\ call.raised = "TypeError"
    /\ current_view \in Views
    /\ viewport # FullViewport
    /\ \E v \in Views : view_window[v] = None

\* C10 as stated: show_view(A) while A is the active View leaves the handler
\* stack and current_view as they were after the first show_view(A).
C10_ReshowLeavesStackIdentical ==
    [][(/\ current_view \in Views
        /\ call'.op = "show_view"
        /\ call'.arg = current_view)
       => (event_stack' = event_stack /\ current_view' = current_view)]_vars

\* C10 amended: show_view(A) while A is the active View and A.has_sections is
\* what it was when A was shown leaves the handler stack and current_view
\* identical; no event of A is ever bound in two frames.
C10_ReshowSameSectionsIdentical ==
    /\ [](\A v \in Views : Cardinality(ViewFrames(v)) <= 1)
    /\ [][(/\ current_view \in Views
           /\ call'.op = "show_view"
           /\ call'.arg = current_view
           /\ has_sections[current_view] = ShownWithSections(current_view))
          => (event_stack' = event_stack /\ current_view' = current_view)]_vars

C10_Witness ==
    /\ call.op = "show_view"
    /\ call.raised = None
    /\ call.arg = call.prev
    /\ current_view = call.arg
    /\ has_sections[current_view]
    /\ ShownWithSections(current_view)
    /\ SMObj(current_view) \in ObjectsOnStack

\* ------------------------------------------- view binding claims, continued
\* the last call was a show_view that returned normally
Shown == call.op = "show_view" /\ call.raised = None

HookCount(seq, name, obj) ==
    Cardinality({i \in DOMAIN seq : seq[i].hook = name /\ seq[i].obj = obj})

Receivers(ev) == {HandlersFor(ev)[i] : i \in DOMAIN HandlersFor(ev)}

\* C11: a View shown with sections has none of the section manager's
\* managed_events bound to its own handlers; for those names the section
\* manager's handler is on the stack and the View's is not, for as long as the
\* activation lasts (only show_view and hide_view change the stack).
C11_ManagedEventsNotBoundToView ==
    /\ []((Shown /\ has_sections[call.arg]) =>
             \A ev \in ManagedEvents :
                /\ \A i \in ViewFrames(call.arg) : ev \notin event_stack[i].events
                /\ ViewObj(call.arg) \notin Receivers(ev)
                /\ SMObj(call.arg) \in Receivers(ev))
    /\ [][call'.op \notin {"show_view", "hide_view"} =>
             event_stack' = event_stack]_vars

C11_Witness ==
    /\ Shown
    /\ has_sections[call.arg]
    /\ call.prev \in Views
    /\ ViewFrames(call.arg) # {}
    /\ SMObj(call.arg) \in Receivers("on_update")

\* C15: hide_view() with no active View is a no-op: no error, no hook, no
\* handler removal; current_view stays None and the stack is unchanged.
C15_HideWithoutViewIsNoOp ==
    [][(call'.op = "hide_view" /\ current_view = None) =>
          /\ call'.raised = None
          /\ hooks' = <<>>
          /\ UNCHANGED <<current_view, event_stack, viewport, view_window,
                         has_sections>>]_vars

C15_Witness ==
    /\ call.op = "hide_view"
    /\ call.prev = None
    /\ current_view = None
    /\ Len(event_stack) > 2

\* C17: a successful show_view(V) invokes V.on_show once, then V.on_show_view
\* once, then (if V has sections) its section manager's on_show_view, all with
\* V's handlers on the stack and current_view = V; on_show is never a stack
\* handler of a View.
C17_ShowHooksOnceInOrder ==
    /\ Shown =>
         LET V == call.arg
             k == IF has_sections[V] THEN 3 ELSE 2
             n == Len(hooks)
         IN /\ n >= k
            /\ hooks[n - k + 1].hook = "on_show"
            /\ hooks[n - k + 1].obj = ViewObj(V)
            /\ hooks[n - k + 2].hook = "on_show_view"
            /\ hooks[n - k + 2].obj = ViewObj(V)
            /\ has_sections[V] =>
                  (hooks[n].hook = "on_show_view" /\ hooks[n].obj = SMObj(V))
            /\ \A i \in (n - k + 1)..n :
                  hooks[i].current_view = V /\ ViewObj(V) \in hooks[i].bound
            /\ HookCount(hooks, "on_show", ViewObj(V)) = 1
            /\ HookCount(hooks, "on_show_view", ViewObj(V)) = 1
            /\ HookCount(hooks, "on_show_view", SMObj(V)) =
                  (IF has_sections[V] THEN 1 ELSE 0)
    /\ \A i \in DOMAIN event_stack :
          event_stack[i].obj.kind = "view" => "on_show" \notin event_stack[i].events

C17_Witness ==
    /\ Shown
    /\ has_sections[call.arg]
    /\ call.prev \in Views
    /\ Len(hooks) = 4

\* C18: show_view(V) sets V.window to this Window only when V.window is unset;
\* a set V.window never changes; showing a View bound to another Window raises
\* nothing, makes it current_view here and leaves V.window at the other Window.
C18_WindowBoundOnce ==
    /\ [](call.op = "show_view" /\ call.arg \in Views =>
             /\ call.raised = None
             /\ current_view = call.arg
             /\ view_window[call.arg] # None)
    /\ [][\A v \in Views :
             /\ view_window[v] # None => view_window'[v] = view_window[v]
             /\ view_window'[v] # view_window[v] =>
                   /\ call'.op = "show_view"
                   /\ call'.arg = v
                   /\ view_window'[v] = ThisWindow]_vars

C18_Witness ==
    /\ Shown
    /\ view_window[call.arg] = OtherWindow
    /\ current_view = call.arg
    /\ ViewFrames(call.arg) # {}

\* C19: show_view(V) while C is active invokes C.on_hide_view exactly once,
\* first, before any handler of V is pushed and before V's show hooks; C's own
\* handlers and, if C has sections, C's section manager's handlers are off the
\* stack afterwards.
C19_OutgoingHiddenFirstAndRemoved ==
    [][(call'.op = "show_view" /\ call'.raised = None /\ current_view \in Views) =>
          LET C == current_view
              V == call'.arg
          IN /\ HookCount(hooks', "on_hide_view", ViewObj(C)) = 1
             /\ hooks'[1].hook = "on_hide_view"
             /\ hooks'[1].obj = ViewObj(C)
             /\ V # C => ViewObj(V) \notin hooks'[1].bound
             /\ \A i \in 2..Len(hooks') : hooks'[i].hook # "on_hide_view"
             /\ V # C => ViewObj(C) \notin ObjectsOnStack'
             /\ (V # C /\ has_sections[C]) => SMObj(C) \notin ObjectsOnStack']_vars

\* C20 as stated: show_view(V) binds to V only the event names V overrides.
C20_OnlyOverriddenBound ==
    Shown =>
        /\ \A i \in ViewFrames(call.arg) :
              event_stack[i].events \subseteq ViewOverrides(call.arg)
        /\ \A ev \in EventTypes \ ViewOverrides(call.arg) :
              ViewObj(call.arg) \notin Receivers(ev)

\* C20 amended: show_view(V) binds to V every event name V has an attribute
\* for (those class View defines, overridden or not, and those a subclass
\* adds) except on_show and the section manager's managed events; a name V has
\* no attribute for is not bound to V and reaches only the Window defaults.
C20_OnlyAttributesBound ==
    Shown =>
        LET V == call.arg
            managed == IF has_sections[V] THEN ManagedEvents ELSE {}
        IN /\ ViewFrames(V) # {}
           /\ \A i \in ViewFrames(V) :
                 event_stack[i].events = (ViewAttrs(V) \ {"on_show"}) \ managed
           /\ \A ev \in EventTypes \ (ViewAttrs(V) \cup ManagedEvents) :
                 Receivers(ev) \subseteq WindowDefaults

C20_Witness ==
    /\ Shown
    /\ call.arg = "A"
    /\ call.prev = "B"
    /\ "on_update" \notin ViewOverrides("A")
    /\ ViewObj("A") \in Receivers("on_update")
    /\ Receivers("on_close") = {}

\* C16: every update trigger dispatches exactly one on_update, carrying the
\* trigger's frame delta, however many fixed steps ran (none while the loop
\* runs, one when the trigger returns); every on_fixed_update carries
\* fixed_rate.
C16_OneUpdateCarryingDelta ==
    /\ [](/\ \A i \in DOMAIN dispatched :
              /\ dispatched[i].event = "on_fixed_update"
                   => dispatched[i].delta_time = fixed_rate
              /\ dispatched[i].event = "on_update"
                   => dispatched[i].delta_time = delta
          /\ delta = global_clock.delta_time
          /\ NumUpdate(dispatched) = (IF pc = "loop" \/ dispatched = <<>> THEN 0 ELSE 1))
    /\ [][(pc = "loop" /\ pc' = "idle")
            => /\ NumUpdate(dispatched') = 1
               /\ NumFixed(dispatched') = fixed_count
               /\ dispatched'[Len(dispatched')] =
                    [event |-> "on_update", delta_time |-> delta]]_vars

C16_Witness ==
    /\ TriggerDone
    /\ fixed_frame_cap # <<>>
    /\ NumFixed(dispatched) >= 2
    /\ Accumulated >= fixed_rate
    /\ delta # fixed_rate
    /\ dispatched[Len(dispatched)].delta_time = delta

\* --------------------------------------------- construction and scheduling
\* C12: no Window with a non-positive fixed_rate reaches the state where the
\* update trigger runs: construction with fixed_rate <= 0 fails.
C12_NonPositiveRateNeverRuns ==
    fixed_rate <= 0 => (pc = "idle" /\ dispatched = <<>> /\ global_clock.time = 0)

\* C13: once close() has returned neither the update trigger nor the draw
\* trigger is scheduled, and neither fires: no update trigger is in progress
\* and the last thing that happened is not a draw trigger.
C13_CloseUnschedulesBoth ==
    closed => /\ scheduled.update = <<>>
              /\ scheduled.draw = <<>>
              /\ pc = "idle"
              /\ call.op # "_redraw_windows"

\* C14: no step of the Window (update trigger, set_update_rate, set_draw_rate,
\* show_view, hide_view, close, draw trigger) changes fixed_rate or
\* fixed_frame_cap, so fixed_delta_time keeps returning the construction value.
C14_FixedRateAndCapNeverChange ==
    [][/\ fixed_rate' = fixed_rate
       /\ fixed_frame_cap' = fixed_frame_cap
       /\ fixed_delta_time' = fixed_delta_time]_vars

C14_Witness ==
    /\ closed
    /\ scheduled.draw # <<>>
    /\ update_rate # DefaultRate
    /\ current_view # None
    /\ TriggerDone
    /\ NumFixed(dispatched) >= 1
    /\ fixed_delta_time = fixed_rate

\* ------------------------------------------------- clocks and the while loop
\* C22: each update trigger ticks the global clock exactly once, at entry:
\* time grows by the trigger's delta and delta_time becomes that delta, no
\* other step touches the global clock (so time is the sum of the deltas and
\* never decreases), and every handler of the trigger already reads the new
\* time and delta_time.
C22_GlobalTickOncePerTrigger ==
    /\ [](/\ Len(observed) = Len(dispatched)
          /\ \A i \in DOMAIN observed :
                /\ observed[i].delta_time = delta
                /\ observed[i].time = global_clock.time)
    /\ [][IF pc = "idle" /\ pc' = "loop"
          THEN global_clock' = [time |-> global_clock.time + delta',
                                delta_time |-> delta']
          ELSE global_clock' = global_clock]_vars
    /\ [][global_clock'.time >= global_clock.time]_vars

C22_Witness ==
    /\ pc = "loop"
    /\ observed # <<>>
    /\ delta > 0
    /\ global_clock.time > delta
    /\ acc0 > 0
    /\ observed[1].delta_time = delta

C26_FixedTimeCountsSteps ==
    /\ global_clock.time = fixed_clock.time + Accumulated
    /\ fixed_clock.time = fixed_rate * total_fixed
    /\ \A i \in DOMAIN dispatched :
          dispatched[i].event = "on_fixed_update" =>
             observed[i].fixed_time =
                fixed_rate * (total_fixed - (NumFixed(dispatched) - i))

C26_Witness ==
    /\ pc = "loop"
    /\ NumFixed(dispatched) >= 2
    /\ total_fixed > NumFixed(dispatched)
    /\ Accumulated > 0
    /\ observed[1].fixed_time < fixed_clock.time

\* C30: with no cap a trigger that has started returns, and whenever no
\* trigger is running accumulated < fixed_rate: the trigger took every whole
\* fixed step contained in the accumulated time.
C30_UncappedTriggerDrains ==
    /\ []((pc = "idle" /\ fixed_frame_cap = <<>>) => Accumulated < fixed_rate)
    /\ ((pc = "loop" /\ fixed_frame_cap = <<>>)
           ~> (pc = "idle" /\ Accumulated < fixed_rate))

C30_Witness ==
    /\ TriggerDone
    /\ fixed_frame_cap = <<>>
    /\ NumFixed(dispatched) >= 3
    /\ Accumulated > 0
    /\ Accumulated < fixed_rate

CapAtLeastOne == IF fixed_frame_cap = <<>> THEN FALSE ELSE fixed_frame_cap[1] >= 1

\* C27: with a cap >= 1, after a stall frame that leaves accumulated >=
\* fixed_rate, triggers with delta 0 eventually bring accumulated below
\* fixed_rate; from then on they take no fixed step, and the fixed steps taken
\* in all are those an uncapped trigger would have taken in the stall frame
\* (the stall frame's delta divided by fixed_rate, rounded down).
C27_CatchUpAcrossFrames ==
    /\ ((CapAtLeastOne /\ Accumulated >= fixed_rate)
           ~> (pc = "idle" /\ Accumulated < fixed_rate))
    /\ []((CapAtLeastOne /\ pc = "idle" /\ Accumulated < fixed_rate)
            => total_fixed = global_clock.time \div fixed_rate)
    /\ [][(CapAtLeastOne /\ global_clock.time > 0 /\ Accumulated < fixed_rate)
            => (total_fixed' = total_fixed /\ Accumulated' = Accumulated)]_vars

C27_Witness ==
    /\ fixed_frame_cap = <<1>>
    /\ TriggerDone
    /\ delta = 0
    /\ NumFixed(dispatched) = 0
    /\ total_fixed = 3
    /\ Accumulated < fixed_rate

\* C21: an exception raised by a handler during an update trigger leaves
\* _dispatch_updates at once: the raising handler is the last one dispatched
\* in that trigger (no further fixed step, no on_update after a raising
\* on_fixed_update), and the global tick and the fixed ticks already made are
\* kept.
C21_HandlerExceptionPropagates ==
    /\ [](exc # None =>
            /\ pc = "idle"
            /\ dispatched # <<>>
            /\ dispatched[Len(dispatched)].event = exc
            /\ NumUpdate(dispatched) = (IF exc = "on_update" THEN 1 ELSE 0)
            /\ global_clock.delta_time = delta
            /\ Accumulated = acc0 + delta - NumFixed(dispatched) * fixed_rate
            /\ fixed_clock.time = fixed_rate * total_fixed)
    /\ [][(exc = None /\ exc' # None) =>
            /\ pc = "loop"
            /\ global_clock' = global_clock
            /\ fixed_clock'.time =
                 fixed_clock.time + (IF exc' = "on_fixed_update" THEN fixed_rate ELSE 0)
            /\ Len(dispatched') = Len(dispatched) + 1]_vars

C21_Witness ==
    /\ exc = "on_fixed_update"
    /\ pc = "idle"
    /\ fixed_frame_cap = <<>>
    /\ NumFixed(dispatched) = 2
    /\ Accumulated >= fixed_rate
    /\ delta > 0

\* C23: the handler stack and current_view change only in a show_view or
\* hide_view step; the update trigger, set_update_rate, set_draw_rate, close
\* and the draw trigger leave both as they are.
C23_OnlyShowHideChangeStack ==
    [][(event_stack' # event_stack \/ current_view' # current_view) =>
         /\ call'.op \in {"show_view", "hide_view"}
         /\ pc = "idle" /\ pc' = "idle"
         /\ UNCHANGED schedVars
         /\ UNCHANGED hostVars]_vars

C23_Witness ==
    /\ call.op = "close"
    /\ closed
    /\ current_view # None
    /\ ViewObj(current_view) \in ObjectsOnStack
    /\ TriggerDone
    /\ update_rate # DefaultRate
    /\ draw_rate # DefaultRate

\* C29: the update and draw schedules are independent: draw_rate and the draw
\* trigger's schedule change only in set_draw_rate, which leaves update_rate
\* and the update trigger's schedule alone; update_rate and the update
\* trigger's schedule change only in set_update_rate (and close, which
\* unschedules), which leave the draw side alone; a draw trigger starts no
\* update trigger and needs none to have run.
C29_SchedulesIndependent ==
    /\ [](/\ scheduled.draw \in {<<>>, <<draw_rate>>}
          /\ scheduled.update \in {<<>>, <<update_rate>>})
    /\ [][(draw_rate' # draw_rate \/ scheduled'.draw # scheduled.draw) =>
            /\ call'.op = "set_draw_rate"
            /\ scheduled'.draw = <<draw_rate'>>
            /\ update_rate' = update_rate
            /\ scheduled'.update = scheduled.update]_vars
    /\ [][(update_rate' # update_rate \/ scheduled'.update # scheduled.update) =>
            /\ call'.op \in {"set_update_rate", "close"}
            /\ call'.op = "set_update_rate" => scheduled'.update = <<update_rate'>>
            /\ draw_rate' = draw_rate
            /\ scheduled'.draw = scheduled.draw]_vars
    /\ [][(call'.op = "_redraw_windows" /\ call' # call) =>
            (UNCHANGED schedVars /\ UNCHANGED hostVars)]_vars

C29_Witness ==
    /\ call.op = "_redraw_windows"
    /\ global_clock.time = 0
    /\ dispatched = <<>>
    /\ scheduled.draw = <<2 * DefaultRate>>
    /\ scheduled.update = <<DefaultRate>>
    /\ update_rate # draw_rate

\* ------------------------------------------------------- View construction
\* C24: a View constructed without a window argument is unattached: its
\* window is unset until the first show_view binds it.
C24_ConstructedUnattached ==
    call.op = "View()" => view_window[call.arg] = None

\* C24 (amended): a View constructed without a window argument is bound at
\* construction to the registered Window (arcade.get_window()); no constructed
\* View is unattached, and show_view never rebinds a constructed View.
C24_ConstructedBoundToRegisteredWindow ==
    /\ [](call.op = "View()" => view_window[call.arg] = get_window)
    /\ [](\A v \in Views : view_window[v] # None)
    /\ [][\A v \in Views : view_window[v] # Unconstructed
                               => view_window'[v] = view_window[v]]_vars

C24_Witness ==
    /\ call.op = "show_view"
    /\ call.raised = None
    /\ call.prev = "A"
    /\ current_view = "B"
    /\ view_window["A"] = get_window
    /\ view_window["B"] = OtherWindow

\* ----------------------------------------------------------- event dispatch
\* C28: while a View V is active, an event V has a registered handler for is
\* delivered to V's handler before the Window's own handler; if V's handler
\* returns a truthy value the Window's handler is not invoked, and if it
\* returns a falsy value the Window's handler is invoked.
C28_ViewBeforeWindow ==
    (/\ call.op = "dispatch_event"
     /\ current_view # None
     /\ \E f \in ViewFrames(current_view) : call.arg \in event_stack[f].events)
    => LET vs == {i \in DOMAIN hooks : hooks[i].obj = ViewObj(current_view)}
           ws == {i \in DOMAIN hooks : hooks[i].obj = WindowMethod}
       IN /\ vs # {}
          /\ \A i \in vs, w \in ws : i < w
          /\ \A i \in vs : hooks[i].result => ws = {}
          /\ \A i \in vs : ~hooks[i].result => ws # {}

\* ------------------------------------------------- scheduling, sections, hooks
\* C31: from construction until close() exactly one entry of the update
\* trigger is scheduled on the clock, at the rate last given to
\* set_update_rate (or to the constructor); never two at once.
C31_OneUpdateTriggerScheduled ==
    ~closed => (Len(scheduled.update) = 1 /\ scheduled.update[1] = update_rate)

C31_Witness ==
    /\ ~closed
    /\ call.op = "set_update_rate"
    /\ update_rate = DefaultRate
    /\ scheduled.update = <<DefaultRate>>
    /\ scheduled.draw = <<2 * DefaultRate>>
    /\ TriggerDone
    /\ delta > 0

\* C32: every section-manager handler on the stack belongs to the current
\* View: no section manager of a View that is not active has a handler on the
\* stack, also when has_sections changed while the View was active.
C32_SectionHandlersBelongToCurrent ==
    \A i \in DOMAIN event_stack :
        event_stack[i].obj.kind = "section_manager"
            => event_stack[i].obj.id = current_view

\* C33: when an active View with sections stops being active, by hide_view()
\* or by show_view(other), its section manager's on_hide_view hook is invoked
\* exactly once.
C33_SectionManagerHiddenOnce ==
    (/\ call.op \in {"show_view", "hide_view"}
     /\ call.raised = None
     /\ call.prev # None
     /\ has_sections[call.prev])
    => HookCount(hooks, "on_hide_view", SMObj(call.prev)) = 1

\* C34: when the outgoing View's on_hide_view raises in show_view(V) or
\* hide_view(), the call leaves current_view and the handler stack as they
\* were: the outgoing View is still current with its handlers on the stack, no
\* handler of another V is on the stack, and no other hook was invoked.
C34_RaisingHideHookLeavesState ==
    /\ [](call.raised = "HookError" =>
            /\ current_view # None
            /\ current_view = call.prev
            /\ ViewObj(call.prev) \in ObjectsOnStack
            /\ (call.op = "show_view" /\ call.arg # call.prev)
                  => ViewObj(call.arg) \notin ObjectsOnStack
            /\ Len(hooks) = 1
            /\ hooks[1].hook = "on_hide_view"
            /\ hooks[1].obj = ViewObj(call.prev))
    /\ [][call'.raised = "HookError" =>
            (event_stack' = event_stack /\ current_view' = current_view)]_vars

C34_Witness ==
    /\ call.op = "show_view"
    /\ call.raised = "HookError"
    /\ call.arg # call.prev
    /\ has_sections[call.prev]
    /\ SMObj(call.prev) \in ObjectsOnStack
    /\ view_window[call.arg] = ThisWindow

\* the on_show_view / on_hide_view hooks of Views in a hook sequence
ViewLifecycle(seq) ==
    LET sel == SelectSeq(seq, LAMBDA h : /\ h.obj.kind = "view"
                                         /\ h.hook \in {"on_show_view", "on_hide_view"})
    IN [i \in DOMAIN sel |-> <<sel[i].hook, sel[i].obj.id>>]

\* C35: the lifecycle hooks alternate: a show_view call invokes on_hide_view
\* of the View that was current (if any) and then on_show_view of the new
\* View, which becomes current; hide_view invokes on_hide_view of the current
\* View (if any) and leaves none current; nothing else invokes these hooks or
\* changes current_view; a call whose on_hide_view raises invoked it on the
\* View that was and stays current. So each on_show_view is followed by the
\* same View's on_hide_view before the next on_show_view, and on_hide_view is
\* only ever invoked on the View that is current.
C35_LifecycleHooksAlternate ==
    /\ []((call.op = "show_view" /\ call.raised = None) =>
            /\ current_view = call.arg
            /\ ViewLifecycle(hooks) =
                 (IF call.prev = None THEN <<>> ELSE <<<<"on_hide_view", call.prev>>>>)
                 \o <<<<"on_show_view", call.arg>>>>)
    /\ []((call.op = "hide_view" /\ call.raised = None) =>
            /\ current_view = None
            /\ ViewLifecycle(hooks) =
                 (IF call.prev = None THEN <<>> ELSE <<<<"on_hide_view", call.prev>>>>))
    /\ [](call.raised = "HookError" =>
            /\ call.prev # None
            /\ current_view = call.prev
            /\ ViewLifecycle(hooks) = <<<<"on_hide_view", call.prev>>>>)
    /\ []((call.op \notin {"show_view", "hide_view"}
             \/ call.raised \notin {None, "HookError"})
            => hooks = <<>>)
    /\ [](\A i \in DOMAIN hooks :
            hooks[i].hook = "on_hide_view" => hooks[i].current_view = hooks[i].obj.id)
    /\ [][/\ call'.prev = current_view
          /\ current_view' # current_view
               => (call'.op \in {"show_view", "hide_view"} /\ call'.raised = None)]_vars

C35_Witness ==
    /\ call.op = "show_view"
    /\ call.raised = None
    /\ call.prev = call.arg
    /\ Len(hooks) = 3
    /\ hooks[1].hook = "on_hide_view"
    /\ hooks[3].hook = "on_show_view"

\* C36: the current View always has its window set, and hide_view clears
\* current_view without touching any View's window.
C36_CurrentViewHasWindow ==
    /\ [](current_view # None => view_window[current_view] # None)
    /\ [][call'.op = "hide_view" => view_window' = view_window]_vars

C36_Witness ==
    /\ call.op = "hide_view"
    /\ call.prev = "A"
    /\ current_view = None
    /\ view_window["A"] = ThisWindow
    /\ view_window["B"] = None

====
